---- MODULE Spec2Model ----
(***************************************************************************)
(* RTCP-mux media transport (transport_mux): a decorator over a member     *)
(* media transport.  The decorator forwards every transport operation to   *)
(* the member, intercepts the member's inbound callbacks to split the      *)
(* muxed channel into RTP and RTCP, and adds "a=rtcp-mux" to the local SDP. *)
(*                                                                         *)
(* Every handler of transport_mux_op is one action.  The member transport, *)
(* the consumer (stream) callbacks, the SDP object and the logging sink    *)
(* are outside the file; they are stubs that record what they were called  *)
(* with.                                                                   *)
(***************************************************************************)
EXTENDS Integers, Sequences, FiniteSets, TLC

VARIABLES
    mux,          \* the transport_mux instance (struct fields)
    member,       \* the member transport: what is attached to it
    sdp_local,    \* local SDP: media index -> sequence of attributes
    apiLog,       \* calls made on the decorator, with their return status
    memberLog,    \* calls the decorator made on the member transport
    rxLog,        \* packets the member transport delivered to its callbacks
    consumerLog,  \* invocations of the consumer's rtp_cb / rtcp_cb
    pjlog,        \* lines written with PJ_LOG
    crashed,      \* a call through a null callback pointer ended the process
    mux_pool,     \* the instance's pool: "none", "allocated" or "released"
    mutex,        \* the instance's recursive mutex
    p_tp,         \* what pjmedia_transport_mux_create stored in *p_tp
    pc,           \* where each thread is inside the handler it runs
    loc           \* the local variables of the handler each thread runs

vars == <<mux, member, sdp_local, apiLog, memberLog, rxLog, consumerLog,
          pjlog, crashed, mux_pool, mutex, p_tp, pc, loc>>

\* the instance's resources, and the threads' positions
life == <<mux_pool, mutex, p_tp>>
threads == <<pc, loc>>

----------------------------------------------------------------------------
(* Bounds *)

MaxOps == 4       \* attach/detach calls plus packets delivered, per run
MaxFwdOps == 3    \* calls on the decorator per run of the forwarding operations
MaxRxOps == 2     \* attach/detach calls plus packets per run over every byte
MaxCreateOps == 3 \* create calls plus the calls that follow, per run
MaxConcOps == 4   \* calls and packets begun per run of the two threads

(* Values *)

NULL == "NULL"
MuxRef == "mux"                 \* the address of the transport_mux instance
MemberTp == "member_tp"         \* the address of the member transport

PJ_SUCCESS == "PJ_SUCCESS"
PJ_EINVAL == "PJ_EINVAL"
PJ_EINVALIDOP == "PJ_EINVALIDOP"
PJ_EBUSY == "PJ_EBUSY"

PJ_ENOMEM == "PJ_ENOMEM"

\* what pj_lock_create_recursive_mutex may return
LockStatus == {PJ_SUCCESS, PJ_ENOMEM}

\* what the member's attach may return, and what its other operations may
AttachStatus == {PJ_SUCCESS, PJ_EINVALIDOP, PJ_EBUSY}
MemberStatus == {PJ_SUCCESS, PJ_EINVALIDOP}

\* A pointer argument is <<>> when it is null and <<v>> when it points to v.
NullPtr == <<>>
Ptr(v) == <<v>>
Deref(p) == p[1]

\* the type of the member transport handed to create
MemberTypes == {"PJMEDIA_TRANSPORT_TYPE_UDP", "PJMEDIA_TRANSPORT_TYPE_ICE"}
TpPtrs == {NullPtr} \cup { Ptr([type |-> t]) : t \in MemberTypes }
Endpts == {NULL, "endpt"}
OutPtrs == {NULL, "p_tp"}

\* attach parameters of two different consumers
AttachParams ==
    { [rtp_cb |-> "A1", rtcp_cb |-> "B1", user_data |-> "U1"],
      [rtp_cb |-> "A2", rtcp_cb |-> "B2", user_data |-> "U2"] }

Streams == {"strm1"}            \* the strm argument of detach

\* outbound payloads: a buffer and its length
Payloads == { [pkt |-> "buf1", size |-> 0], [pkt |-> "buf2", size |-> 172] }
Addrs == {"addr1"}

MediaIdx == {1, 2}
\* the attributes the member's encode_sdp adds to the media line
MemberAttrs == { <<>>, <<[name |-> "candidate", value |-> "1"]>> }
Pools == {NULL, "sdp_pool"}
RemoteSdps == {NULL, "sdp_remote"}

\* inbound packets: the buffer (its bytes, the first being 0x80) and the size
\* the member passes; a member transport reports a receive error with a
\* negative size
SecondBytes == {63, 64, 72, 95, 96, 200, 223, 224}
AllBytes == 0..255
PktsOver(B) ==
    { [pkt |-> <<>>, size |-> 0], [pkt |-> <<>>, size |-> -1],
      [pkt |-> <<128>>, size |-> 1] }
    \cup { [pkt |-> <<128, b>>, size |-> 2] : b \in B }
RxPkts == PktsOver(SecondBytes)
RxAllPkts == PktsOver(AllBytes)
\* two inbound packets: one in the RTP range, one not
ConcPkts == { [pkt |-> <<128, 72>>, size |-> 2],
              [pkt |-> <<128, 200>>, size |-> 2] }

----------------------------------------------------------------------------
(* Log records *)

NoTriple == [rtp_cb |-> NULL, rtcp_cb |-> NULL, user_data |-> NULL]

\* a call on a transport: every field is present in every record
Call(op) ==
    [ op |-> op, pkt |-> NULL, size |-> 0, addr |-> NULL,
      rtp_cb |-> NULL, rtcp_cb |-> NULL, user_data |-> NULL,
      media_index |-> 0, status |-> PJ_SUCCESS,
      seen |-> NoTriple, seen_attrs |-> 0 ]

\* the consumer's thread and the member transport's delivery thread
Threads == {"app", "rx"}

\* the locals of a handler: every field is present in every record
NoLocals ==
    [ op |-> NULL, param |-> NoTriple, status |-> PJ_SUCCESS, strm |-> NULL,
      path |-> NULL, pkt |-> <<>>, size |-> 0, entry |-> NoTriple,
      live |-> FALSE, cb |-> NULL, user_data |-> NULL, todo |-> {} ]

Triple(m) == [rtp_cb |-> m.rtp_cb, rtcp_cb |-> m.rtcp_cb,
              user_data |-> m.user_data]

Last(s) == s[Len(s)]

Steps == Len(apiLog) + Len(rxLog)

----------------------------------------------------------------------------
(* The member transport and the consumer: stubs of the code outside the file *)

\* pjmedia_transport_attach2 on the member: installs the callbacks when it
\* succeeds, changes nothing when it fails
MemberAttach(mem, param, st) ==
    IF st = PJ_SUCCESS
    THEN [rtp_cb |-> param.rtp_cb, rtcp_cb |-> param.rtcp_cb,
          user_data |-> param.user_data, attached |-> TRUE]
    ELSE mem

\* pjmedia_transport_detach on the member: forgets the callbacks of the
\* stream that is attached
MemberDetach(mem, token) ==
    IF mem.attached /\ mem.user_data = token
    THEN [rtp_cb |-> NULL, rtcp_cb |-> NULL, user_data |-> NULL,
          attached |-> FALSE]
    ELSE mem

\* pjmedia_transport_encode_sdp on the member: adds its attributes to the
\* media line
MemberEncode(sdp, media_index, attrs) ==
    [sdp EXCEPT ![media_index] = @ \o attrs]

\* pjmedia_sdp_attr_create(pool, name, value)
SdpAttr(name, value) == [name |-> name, value |-> value]

\* pjmedia_sdp_media_add_attr(m, attr), m being the media line at media_index
MediaAddAttr(sdp, media_index, attr) ==
    [sdp EXCEPT ![media_index] = Append(@, attr)]

\* a consumer callback being invoked
Invoke(cb, user_data, pkt, size) ==
    [cb |-> cb, user_data |-> user_data, pkt |-> pkt, size |-> size]

----------------------------------------------------------------------------
(* transport_mux *)

\* no instance: nothing is allocated
NoInstance ==
    [ rtp_cb |-> NULL, rtcp_cb |-> NULL, user_data |-> NULL,
      member_tp |-> NULL, member_tp_attached |-> FALSE, type |-> NULL ]

\* the mutex before it is created, and once pj_lock_create_recursive_mutex
\* made it
NoMutex == [state |-> "none", owner |-> NULL, count |-> 0]
NewMutex == [state |-> "created", owner |-> NULL, count |-> 0]

\* slip: the pool is not released when the mutex cannot be created
Create_LeaksPool(endpt, tpPtr, out, lockSt) ==
    IF endpt = NULL \/ tpPtr = NullPtr \/ out = NULL
    THEN [ mux |-> NoInstance, pool |-> "none", mutex |-> NoMutex,
           p_tp |-> NULL, ret |-> PJ_EINVAL ]
    ELSE IF lockSt # PJ_SUCCESS
         THEN [ mux |-> NoInstance, pool |-> "allocated", mutex |-> NoMutex,
                p_tp |-> NULL, ret |-> lockSt ]
         ELSE [ mux |-> [NoInstance EXCEPT
                            !.type = IF tpPtr # NullPtr
                                     THEN Deref(tpPtr).type
                                     ELSE "PJMEDIA_TRANSPORT_TYPE_UDP",
                            !.member_tp = MemberTp],
                pool |-> "allocated", mutex |-> NewMutex,
                p_tp |-> MuxRef, ret |-> PJ_SUCCESS ]

\* pjmedia_transport_mux_create: the instance, its pool and mutex, what is
\* stored in *p_tp (out is p_tp, null or not) and the status returned
Create(endpt, tpPtr, out, lockSt) ==
    IF endpt = NULL \/ tpPtr = NullPtr \/ out = NULL
    THEN [ mux |-> NoInstance, pool |-> "none", mutex |-> NoMutex,
           p_tp |-> NULL, ret |-> PJ_EINVAL ]
    ELSE IF lockSt # PJ_SUCCESS
         THEN [ mux |-> NoInstance, pool |-> "released", mutex |-> NoMutex,
                p_tp |-> NULL, ret |-> lockSt ]
         ELSE [ mux |-> [NoInstance EXCEPT
                            !.type = IF tpPtr # NullPtr
                                     THEN Deref(tpPtr).type
                                     ELSE "PJMEDIA_TRANSPORT_TYPE_UDP",
                            !.member_tp = MemberTp],
                pool |-> "allocated", mutex |-> NewMutex,
                p_tp |-> MuxRef, ret |-> PJ_SUCCESS ]

\* the instance after a successful create over a UDP member transport
MuxCreated ==
    Create("endpt", Ptr([type |-> "PJMEDIA_TRANSPORT_TYPE_UDP"]), "p_tp",
           PJ_SUCCESS).mux

MemberFresh ==
    [rtp_cb |-> NULL, rtcp_cb |-> NULL, user_data |-> NULL, attached |-> FALSE]

\* transport_attach2: "Save the callbacks"
SaveCallbacks(m, param) ==
    [m EXCEPT !.rtp_cb = param.rtp_cb,
              !.rtcp_cb = param.rtcp_cb,
              !.user_data = param.user_data]

\* slip: the consumer's user data is left in the shadow parameters
MemberParam_KeepsUserData(param) ==
    [param EXCEPT !.rtp_cb = "mux_rtp_cb", !.rtcp_cb = "mux_rtcp_cb"]

\* transport_attach2: "Attach self to member transport", the shadow parameters
MemberParam(param) ==
    [param EXCEPT !.user_data = MuxRef,
                  !.rtp_cb = "mux_rtp_cb",
                  !.rtcp_cb = "mux_rtcp_cb"]

\* slip: the rollback forgets user_data
RollbackCallbacks_KeepsUserData(m) ==
    [m EXCEPT !.rtp_cb = NULL, !.rtcp_cb = NULL]

\* transport_attach2: the rollback when the member's attach failed
RollbackCallbacks(m) ==
    [m EXCEPT !.rtp_cb = NULL, !.rtcp_cb = NULL, !.user_data = NULL]

\* transport_attach2 as a whole: the instance and the member afterwards, the
\* calls made on the member, and the status returned.  A null param fails
\* PJ_ASSERT_RETURN.
Attach2(m, mem, paramPtr, st) ==
    IF paramPtr = NullPtr
    THEN [mux |-> m, member |-> mem, calls |-> <<>>, ret |-> PJ_EINVAL]
    ELSE LET param == Deref(paramPtr)
             saved == SaveCallbacks(m, param)
             mp == MemberParam(param)
             call == [Call("attach2") EXCEPT !.rtp_cb = mp.rtp_cb,
                                             !.rtcp_cb = mp.rtcp_cb,
                                             !.user_data = mp.user_data,
                                             !.status = st,
                                             !.seen = Triple(saved)]
         IN  [ mux |-> IF st # PJ_SUCCESS
                       THEN RollbackCallbacks(saved)
                       ELSE [saved EXCEPT !.member_tp_attached = TRUE],
               member |-> MemberAttach(mem, mp, st),
               calls |-> <<call>>,
               ret |-> st ]

\* slip: the strm argument is handed on
DetachToken_Strm(m, strm) == strm

\* transport_detach: the token handed to the member's detach
DetachToken(m, strm) == MuxRef

\* transport_detach: "Clear up application infos from transport"
ClearCallbacks(m) ==
    [m EXCEPT !.rtp_cb = NULL, !.rtcp_cb = NULL, !.user_data = NULL,
              !.member_tp_attached = FALSE]

\* transport_detach as a whole
Detach(m, mem, strm) ==
    LET forwarded == m.member_tp # NULL
        call == [Call("detach") EXCEPT !.user_data = DetachToken(m, strm),
                                       !.seen = Triple(m)]
    IN  [ mux |-> ClearCallbacks(m),
          member |-> IF forwarded
                     THEN MemberDetach(mem, DetachToken(m, strm))
                     ELSE mem,
          calls |-> IF forwarded THEN <<call>> ELSE <<>> ]

\* a & b on non-negative integers
RECURSIVE BitAnd(_, _)
BitAnd(a, b) ==
    IF a = 0 \/ b = 0
    THEN 0
    ELSE 2 * BitAnd(a \div 2, b \div 2) + (a % 2) * (b % 2)

\* mux_rtp_cb: int type = (size >= 2) ? ((data[1]) & 0x7F) : 0
PktType(pkt, size) == IF size >= 2 THEN BitAnd(pkt[2], 127) ELSE 0

\* slip: the lower limit is excluded
IsRtpType_OffByOne(type) == type > 64 /\ type < 96

\* mux_rtp_cb: if (type >= 64 && type < 96)
IsRtpType(type) == type >= 64 /\ type < 96

\* slip: the callback gets the user data the member passed in
RtpDispatch_MemberUserData(m, pkt, size) ==
    IF IsRtpType(PktType(pkt, size))
    THEN <<Invoke(m.rtp_cb, MuxRef, pkt, size)>>
    ELSE <<Invoke(m.rtcp_cb, MuxRef, pkt, size)>>

\* slip: a packet too short to classify is dropped
RtpDispatch_DropsShort(m, pkt, size) ==
    IF size < 2
    THEN <<>>
    ELSE IF IsRtpType(PktType(pkt, size))
         THEN <<Invoke(m.rtp_cb, m.user_data, pkt, size)>>
         ELSE <<Invoke(m.rtcp_cb, m.user_data, pkt, size)>>

\* mux_rtp_cb: the calls it makes, each as (callback, user_data, pkt, size)
RtpDispatch(m, pkt, size) ==
    IF IsRtpType(PktType(pkt, size))
    THEN <<Invoke(m.rtp_cb, m.user_data, pkt, size)>>
    ELSE <<Invoke(m.rtcp_cb, m.user_data, pkt, size)>>

\* slip: the RTCP path classifies like the RTP path
RtcpDispatch_Classifies(m, pkt, size) ==
    IF IsRtpType(PktType(pkt, size))
    THEN <<Invoke(m.rtp_cb, m.user_data, pkt, size)>>
    ELSE <<Invoke(m.rtcp_cb, m.user_data, pkt, size)>>

\* mux_rtcp_cb: the calls it makes
RtcpDispatch(m, pkt, size) == <<Invoke(m.rtcp_cb, m.user_data, pkt, size)>>

\* A call through a null function pointer is undefined: the process dies, or
\* the call comes back without any consumer callback having run.
NullCallOutcomes == {"crash", "return"}

\* one call forwarded to the member, and the status handed back
Forward(call, st, ret) ==
    [calls |-> <<[call EXCEPT !.status = st]>>, ret |-> ret]

\* transport_send_rtp
SendRtp(m, pkt, size, st) ==
    Forward([Call("send_rtp") EXCEPT !.pkt = pkt, !.size = size], st, st)

\* slip: addr_len is passed where the size belongs
SendRtcp2_AddrLen(m, addr, addr_len, pkt, size, st) ==
    Forward([Call("send_rtp") EXCEPT !.pkt = pkt, !.size = addr_len], st, st)

\* slip: the member's own RTCP send is used, with the address
SendRtcp2_ToMemberRtcp2(m, addr, addr_len, pkt, size, st) ==
    Forward([Call("send_rtcp2") EXCEPT !.addr = addr, !.pkt = pkt,
                                       !.size = size], st, st)

\* transport_send_rtcp2
SendRtcp2(m, addr, addr_len, pkt, size, st) ==
    Forward([Call("send_rtp") EXCEPT !.pkt = pkt, !.size = size], st, st)

\* transport_send_rtcp
SendRtcp(m, pkt, size, st) == SendRtcp2(m, NULL, 0, pkt, size, st)

\* transport_simulate_lost
SimulateLost(m, dir, pct_lost, st) ==
    Forward([Call("simulate_lost") EXCEPT !.addr = dir, !.size = pct_lost],
            st, st)

\* transport_media_create
MediaCreate(m, media_index, st) ==
    Forward([Call("media_create") EXCEPT !.media_index = media_index], st, st)

\* transport_media_start
MediaStart(m, pool, sdp_remote, media_index, st) ==
    IF pool = NULL \/ sdp_remote = NULL
    THEN [calls |-> <<>>, ret |-> PJ_EINVAL]
    ELSE Forward([Call("media_start") EXCEPT !.media_index = media_index],
                 st, st)

\* slip: the failure is logged and then masked
MediaStop_Masked(m, st) ==
    [ calls |-> <<[Call("media_stop") EXCEPT !.status = st]>>,
      log |-> IF st # PJ_SUCCESS
              THEN <<"RTCP-mux failed stop underlying media transport.">>
              ELSE <<>>,
      ret |-> PJ_SUCCESS ]

\* transport_media_stop; log is what PJ_LOG wrote
MediaStop(m, st) ==
    [ calls |-> <<[Call("media_stop") EXCEPT !.status = st]>>,
      log |-> IF st # PJ_SUCCESS
              THEN <<"RTCP-mux failed stop underlying media transport.">>
              ELSE <<>>,
      ret |-> st ]

\* transport_get_info
GetInfo(m, st) == Forward(Call("get_info"), st, st)

\* rtcp-mux attribute of transport_encode_sdp: ID_RTCPMUX, no value
RtcpMuxAttr == SdpAttr("rtcp-mux", NULL)

\* slip: the attribute is added only when the member's encode succeeded
EncodeSdp_OnlyOnSuccess(m, sdp, sdp_pool, media_index, attrs, st) ==
    IF sdp_pool = NULL
    THEN [sdp |-> sdp, calls |-> <<>>, ret |-> PJ_EINVAL]
    ELSE LET call == [Call("encode_sdp") EXCEPT
                         !.media_index = media_index,
                         !.status = st,
                         !.seen_attrs = Len(sdp[media_index])]
             encoded == MemberEncode(sdp, media_index, attrs)
         IN  [ sdp |-> IF st = PJ_SUCCESS
                       THEN MediaAddAttr(encoded, media_index,
                                         SdpAttr("rtcp-mux", NULL))
                       ELSE encoded,
               calls |-> <<call>>,
               ret |-> st ]

\* transport_encode_sdp: the local SDP afterwards, the call made on the
\* member and the status returned; attrs is what the member adds
EncodeSdp(m, sdp, sdp_pool, media_index, attrs, st) ==
    IF sdp_pool = NULL
    THEN [sdp |-> sdp, calls |-> <<>>, ret |-> PJ_EINVAL]
    ELSE LET call == [Call("encode_sdp") EXCEPT
                         !.media_index = media_index,
                         !.status = st,
                         !.seen_attrs = Len(sdp[media_index])]
             encoded == MemberEncode(sdp, media_index, attrs)
         IN  [ sdp |-> MediaAddAttr(encoded, media_index, RtcpMuxAttr),
               calls |-> <<call>>,
               ret |-> st ]

----------------------------------------------------------------------------
(* State machine *)

Init ==
    /\ mux = MuxCreated
    /\ member = MemberFresh
    /\ sdp_local = [i \in MediaIdx |-> <<>>]
    /\ apiLog = <<>>
    /\ memberLog = <<>>
    /\ rxLog = <<>>
    /\ consumerLog = <<>>
    /\ pjlog = <<>>
    /\ crashed = FALSE
    /\ mux_pool = "allocated"
    /\ mutex = NewMutex
    /\ p_tp = MuxRef
    /\ pc = [t \in Threads |-> "idle"]
    /\ loc = [t \in Threads |-> NoLocals]

\* before pjmedia_transport_mux_create: no instance, no pool, no mutex
InitCreate ==
    /\ mux = NoInstance
    /\ member = MemberFresh
    /\ sdp_local = [i \in MediaIdx |-> <<>>]
    /\ apiLog = <<>>
    /\ memberLog = <<>>
    /\ rxLog = <<>>
    /\ consumerLog = <<>>
    /\ pjlog = <<>>
    /\ crashed = FALSE
    /\ mux_pool = "none"
    /\ mutex = NoMutex
    /\ p_tp = NULL
    /\ pc = [t \in Threads |-> "idle"]
    /\ loc = [t \in Threads |-> NoLocals]

Running(max) == ~crashed /\ Steps < max

\* pjmedia_transport_mux_create(endpt, tp, p_tp); out is the p_tp argument
pjmedia_transport_mux_create(max, endpt, tpPtr, out, lockSt) ==
    /\ Steps < max
    /\ p_tp = NULL
    /\ LET r == Create(endpt, tpPtr, out, lockSt) IN
        /\ mux' = r.mux
        /\ mux_pool' = r.pool
        /\ mutex' = r.mutex
        /\ p_tp' = r.p_tp
        /\ apiLog' = Append(apiLog,
               [ op |-> "create", endpt |-> endpt, tp |-> tpPtr,
                 p_tp |-> out, lock_status |-> lockSt, status |-> r.ret ])
    /\ UNCHANGED <<member, sdp_local, memberLog, rxLog, consumerLog, pjlog,
                   crashed, threads>>

transport_attach2(max, paramPtr, st) ==
    /\ Running(max)
    /\ LET r == Attach2(mux, member, paramPtr, st)
           p == IF paramPtr = NullPtr THEN NoTriple ELSE Deref(paramPtr)
       IN  /\ mux' = r.mux
           /\ member' = r.member
           /\ memberLog' = memberLog \o r.calls
           /\ apiLog' = Append(apiLog,
                  [Call("attach2") EXCEPT !.rtp_cb = p.rtp_cb,
                                          !.rtcp_cb = p.rtcp_cb,
                                          !.user_data = p.user_data,
                                          !.addr = IF paramPtr = NullPtr
                                                   THEN NULL ELSE "param",
                                          !.status = r.ret])
    /\ UNCHANGED <<sdp_local, rxLog, consumerLog, pjlog, crashed>>
    /\ UNCHANGED <<life, threads>>

transport_detach(max, strm) ==
    /\ Running(max)
    /\ LET r == Detach(mux, member, strm)
       IN  /\ mux' = r.mux
           /\ member' = r.member
           /\ memberLog' = memberLog \o r.calls
           /\ apiLog' = Append(apiLog,
                  [Call("detach") EXCEPT !.user_data = strm])
    /\ UNCHANGED <<sdp_local, rxLog, consumerLog, pjlog, crashed>>
    /\ UNCHANGED <<life, threads>>

\* the member transport delivers a packet: it calls the callback attached to
\* it with the user data attached to it
Delivering(max) ==
    Running(max) /\ member.attached /\ member.user_data = MuxRef

Deliver(max, path, calls, p) ==
    /\ Delivering(max)
    /\ rxLog' = Append(rxLog, [path |-> path, pkt |-> p.pkt, size |-> p.size,
                               attached |-> mux.member_tp_attached,
                               registered |-> Triple(mux)])
    /\ IF \E i \in DOMAIN calls : calls[i].cb = NULL
       THEN /\ \E o \in NullCallOutcomes : crashed' = (o = "crash")
            /\ UNCHANGED consumerLog
       ELSE /\ consumerLog' = consumerLog \o calls
            /\ UNCHANGED crashed
    /\ UNCHANGED <<mux, member, sdp_local, apiLog, memberLog, pjlog>>
    /\ UNCHANGED <<life, threads>>

mux_rtp_cb(max, p) ==
    /\ member.rtp_cb = "mux_rtp_cb"
    /\ Deliver(max, "rtp", RtpDispatch(mux, p.pkt, p.size), p)

mux_rtcp_cb(max, p) ==
    /\ member.rtcp_cb = "mux_rtcp_cb"
    /\ Deliver(max, "rtcp", RtcpDispatch(mux, p.pkt, p.size), p)

\* an operation that only forwards: r is what it computed, e the call on
\* the decorator
Forwarding(r, e) ==
    /\ Running(MaxFwdOps)
    /\ memberLog' = memberLog \o r.calls
    /\ apiLog' = Append(apiLog, [e EXCEPT !.status = r.ret])
    /\ UNCHANGED <<mux, member, sdp_local, rxLog, consumerLog, pjlog, crashed>>
    /\ UNCHANGED <<life, threads>>

transport_send_rtp(p, st) ==
    Forwarding(SendRtp(mux, p.pkt, p.size, st),
               [Call("send_rtp") EXCEPT !.pkt = p.pkt, !.size = p.size])

transport_send_rtcp(p, st) ==
    Forwarding(SendRtcp(mux, p.pkt, p.size, st),
               [Call("send_rtcp") EXCEPT !.pkt = p.pkt, !.size = p.size])

transport_send_rtcp2(addr, p, st) ==
    Forwarding(SendRtcp2(mux, addr, 16, p.pkt, p.size, st),
               [Call("send_rtcp2") EXCEPT !.addr = addr, !.pkt = p.pkt,
                                          !.size = p.size])

transport_simulate_lost(st) ==
    Forwarding(SimulateLost(mux, "PJMEDIA_DIR_DECODING", 10, st),
               [Call("simulate_lost") EXCEPT !.addr = "PJMEDIA_DIR_DECODING",
                                             !.size = 10])

transport_media_create(media_index, st) ==
    Forwarding(MediaCreate(mux, media_index, st),
               [Call("media_create") EXCEPT !.media_index = media_index])

transport_media_start(pool, sdp_remote, media_index, st) ==
    Forwarding(MediaStart(mux, pool, sdp_remote, media_index, st),
               [Call("media_start") EXCEPT !.media_index = media_index,
                    !.addr = IF pool = NULL \/ sdp_remote = NULL
                             THEN NULL ELSE "args"])

\* slip: stopping the media also clears the consumer's registration
transport_media_stop_Detaches(st) ==
    /\ Running(MaxFwdOps)
    /\ LET r == MediaStop(mux, st)
       IN  /\ memberLog' = memberLog \o r.calls
           /\ pjlog' = pjlog \o r.log
           /\ apiLog' = Append(apiLog,
                                [Call("media_stop") EXCEPT !.status = r.ret])
    /\ mux' = ClearCallbacks(mux)
    /\ UNCHANGED <<member, sdp_local, rxLog, consumerLog, crashed>>
    /\ UNCHANGED <<life, threads>>

transport_media_stop(st) ==
    /\ Running(MaxFwdOps)
    /\ LET r == MediaStop(mux, st)
       IN  /\ memberLog' = memberLog \o r.calls
           /\ pjlog' = pjlog \o r.log
           /\ apiLog' = Append(apiLog,
                                [Call("media_stop") EXCEPT !.status = r.ret])
    /\ UNCHANGED <<mux, member, sdp_local, rxLog, consumerLog, crashed>>
    /\ UNCHANGED <<life, threads>>

transport_get_info(st) == Forwarding(GetInfo(mux, st), Call("get_info"))

transport_encode_sdp(sdp_pool, media_index, attrs, st) ==
    /\ Running(MaxFwdOps)
    /\ LET r == EncodeSdp(mux, sdp_local, sdp_pool, media_index, attrs, st)
       IN  /\ sdp_local' = r.sdp
           /\ memberLog' = memberLog \o r.calls
           /\ apiLog' = Append(apiLog,
                  [Call("encode_sdp") EXCEPT !.media_index = media_index,
                                             !.addr = sdp_pool,
                                             !.seen_attrs =
                                                 Len(sdp_local[media_index]),
                                             !.status = r.ret])
    /\ UNCHANGED <<mux, member, rxLog, consumerLog, pjlog, crashed>>
    /\ UNCHANGED <<life, threads>>

ParamPtrs == {NullPtr} \cup { Ptr(p) : p \in AttachParams }

Next ==
    \/ \E pp \in ParamPtrs, st \in AttachStatus :
          transport_attach2(MaxOps, pp, st)
    \/ \E strm \in Streams : transport_detach(MaxOps, strm)
    \/ Delivering(MaxOps) /\ \E p \in RxPkts : mux_rtp_cb(MaxOps, p)
    \/ Delivering(MaxOps) /\ \E p \in RxPkts : mux_rtcp_cb(MaxOps, p)

Spec == Init /\ [][Next]_vars

\* attach, detach and one packet, the packet's second byte being any byte
NextRx ==
    \/ \E pp \in ParamPtrs, st \in AttachStatus :
          transport_attach2(MaxRxOps, pp, st)
    \/ \E strm \in Streams : transport_detach(MaxRxOps, strm)
    \/ Delivering(MaxRxOps) /\ \E p \in RxAllPkts : mux_rtp_cb(MaxRxOps, p)
    \/ Delivering(MaxRxOps) /\ \E p \in RxAllPkts : mux_rtcp_cb(MaxRxOps, p)

SpecRx == Init /\ [][NextRx]_vars

\* the consumer's thread using the operations that forward to the member
NextFwd ==
    \/ \E pp \in ParamPtrs, st \in AttachStatus :
          transport_attach2(MaxFwdOps, pp, st)
    \/ \E strm \in Streams : transport_detach(MaxFwdOps, strm)
    \/ \E p \in Payloads, st \in MemberStatus : transport_send_rtp(p, st)
    \/ \E p \in Payloads, st \in MemberStatus : transport_send_rtcp(p, st)
    \/ \E a \in Addrs, p \in Payloads, st \in MemberStatus :
          transport_send_rtcp2(a, p, st)
    \/ \E st \in MemberStatus : transport_simulate_lost(st)
    \/ \E st \in MemberStatus : transport_media_create(1, st)
    \/ \E pool \in Pools, r \in RemoteSdps, st \in MemberStatus :
          transport_media_start(pool, r, 1, st)
    \/ \E st \in MemberStatus : transport_media_stop(st)
    \/ \E st \in MemberStatus : transport_get_info(st)
    \/ \E pool \in Pools, i \in MediaIdx, a \in MemberAttrs,
          st \in MemberStatus : transport_encode_sdp(pool, i, a, st)

SpecFwd == Init /\ [][NextFwd]_vars

\* every operation of the decorator and both inbound callbacks
NextFrame ==
    \/ NextFwd
    \/ Delivering(MaxFwdOps) /\ \E p \in ConcPkts : mux_rtp_cb(MaxFwdOps, p)
    \/ Delivering(MaxFwdOps) /\ \E p \in ConcPkts : mux_rtcp_cb(MaxFwdOps, p)

SpecFrame == Init /\ [][NextFrame]_vars

\* create, then attach, detach and packets on the instance it returned
NextCreate ==
    \/ \E e \in Endpts, t \in TpPtrs, o \in OutPtrs, l \in LockStatus :
          pjmedia_transport_mux_create(MaxCreateOps, e, t, o, l)
    \/ p_tp # NULL /\ \E pp \in ParamPtrs, st \in AttachStatus :
          transport_attach2(MaxCreateOps, pp, st)
    \/ p_tp # NULL /\ \E strm \in Streams :
          transport_detach(MaxCreateOps, strm)
    \/ p_tp # NULL /\ Delivering(MaxCreateOps)
          /\ \E p \in RxPkts : mux_rtp_cb(MaxCreateOps, p)
    \/ p_tp # NULL /\ Delivering(MaxCreateOps)
          /\ \E p \in RxPkts : mux_rtcp_cb(MaxCreateOps, p)

SpecCreate == InitCreate /\ [][NextCreate]_vars

----------------------------------------------------------------------------
(* The consumer's thread and the member's delivery thread, statement by
   statement.  A position is the handler's name and the source line of the
   statement the thread executes next. *)

\* what a read of freed memory may yield besides the value last stored
GARBAGE == "GARBAGE"

ConcStatus == {PJ_SUCCESS, PJ_EBUSY}

\* pj_lock_acquire / pj_lock_release on the recursive mutex
LockAcquire(mx, t) == [mx EXCEPT !.owner = t, !.count = @ + 1]
LockRelease(mx, t) ==
    [mx EXCEPT !.count = @ - 1, !.owner = IF mx.count = 1 THEN NULL ELSE t]

\* the statements of transport_attach2, transport_detach and
\* transport_destroy that acquire and release the mutex: position -> next
AcquireAt ==
    [ attach2_177 |-> "attach2_178", attach2_190 |-> "attach2_191",
      detach_214 |-> "detach_215", destroy_270 |-> "destroy_271" ]
ReleaseAt ==
    [ attach2_181 |-> "attach2_188", attach2_194 |-> "return",
      detach_218 |-> "detach_219", destroy_271 |-> "destroy_273" ]

\* the assignments to the triple: position -> field, value and next position
StoreAt(l) ==
    [ attach2_178 |-> [f |-> "rtp_cb", v |-> l.param.rtp_cb,
                       next |-> "attach2_179"],
      attach2_179 |-> [f |-> "rtcp_cb", v |-> l.param.rtcp_cb,
                       next |-> "attach2_180"],
      attach2_180 |-> [f |-> "user_data", v |-> l.param.user_data,
                       next |-> "attach2_181"],
      attach2_191 |-> [f |-> "rtp_cb", v |-> NULL, next |-> "attach2_192"],
      attach2_192 |-> [f |-> "rtcp_cb", v |-> NULL, next |-> "attach2_193"],
      attach2_193 |-> [f |-> "user_data", v |-> NULL, next |-> "attach2_194"],
      detach_215 |-> [f |-> "rtp_cb", v |-> NULL, next |-> "detach_216"],
      detach_216 |-> [f |-> "rtcp_cb", v |-> NULL, next |-> "detach_217"],
      detach_217 |-> [f |-> "user_data", v |-> NULL, next |-> "detach_218"] ]

\* the assignments to member_tp_attached, after which the handler returns
FlagAt == [ attach2_198 |-> TRUE, detach_219 |-> FALSE ]

\* the calls of the dispatch routines through a consumer callback
InvokeAt == {"mux_rtp_cb_290", "mux_rtp_cb_292", "mux_rtcp_cb_303"}

\* calls and packets begun so far
Begun ==
    Len(apiLog) + Len(rxLog) + Cardinality({t \in Threads : pc[t] # "idle"})

\* the instance can be used: it was created and destroy was not called
Usable == mux_pool = "allocated" /\ mutex.state = "created"

Goto(t, l) == pc' = [pc EXCEPT ![t] = l]

\* the handler returns st: the call is logged and the thread is idle again
Return(t, st) ==
    /\ apiLog' = Append(apiLog,
           [Call(loc[t].op) EXCEPT !.status = st,
                                   !.rtp_cb = loc[t].param.rtp_cb,
                                   !.rtcp_cb = loc[t].param.rtcp_cb,
                                   !.user_data = loc[t].param.user_data])
    /\ pc' = [pc EXCEPT ![t] = "idle"]
    /\ loc' = [loc EXCEPT ![t] = NoLocals]

\* the consumer calls transport_attach2; st is what the member's attach
\* is going to return
call_attach2(t, paramPtr, st) ==
    /\ ~crashed /\ Usable /\ pc[t] = "idle" /\ Begun < MaxConcOps
    /\ IF paramPtr = NullPtr
       THEN /\ apiLog' = Append(apiLog,
                   [Call("attach2") EXCEPT !.status = PJ_EINVAL])
            /\ UNCHANGED threads
       ELSE /\ Goto(t, "attach2_177")
            /\ loc' = [loc EXCEPT ![t] =
                   [NoLocals EXCEPT !.op = "attach2",
                                    !.param = Deref(paramPtr),
                                    !.status = st]]
            /\ UNCHANGED apiLog
    /\ UNCHANGED <<mux, member, sdp_local, memberLog, rxLog, consumerLog,
                   pjlog, crashed, life>>

\* the consumer calls transport_detach
call_detach(t, strm) ==
    /\ ~crashed /\ Usable /\ pc[t] = "idle" /\ Begun < MaxConcOps
    /\ Goto(t, "detach_209")
    /\ loc' = [loc EXCEPT ![t] = [NoLocals EXCEPT !.op = "detach",
                                                  !.strm = strm]]
    /\ UNCHANGED <<mux, member, sdp_local, apiLog, memberLog, rxLog,
                   consumerLog, pjlog, crashed, life>>

\* the consumer calls transport_destroy
call_destroy(t) ==
    /\ ~crashed /\ Usable /\ pc[t] = "idle" /\ Begun < MaxConcOps
    /\ Goto(t, "destroy_270")
    /\ loc' = [loc EXCEPT ![t] = [NoLocals EXCEPT !.op = "destroy"]]
    /\ UNCHANGED <<mux, member, sdp_local, apiLog, memberLog, rxLog,
                   consumerLog, pjlog, crashed, life>>

\* pj_lock_acquire: the thread waits while another thread owns the mutex
lock_acquire(t) ==
    /\ ~crashed /\ pc[t] \in DOMAIN AcquireAt
    /\ mutex.state = "created" /\ mutex.owner \in {NULL, t}
    /\ mutex' = LockAcquire(mutex, t)
    /\ Goto(t, AcquireAt[pc[t]])
    /\ UNCHANGED <<mux, member, sdp_local, apiLog, memberLog, rxLog,
                   consumerLog, pjlog, crashed, mux_pool, p_tp, loc>>

\* one assignment to rtp_cb, rtcp_cb or user_data
store(t) ==
    /\ ~crashed /\ pc[t] \in DOMAIN StoreAt(loc[t])
    /\ LET w == StoreAt(loc[t])[pc[t]]
       IN  /\ mux' = [mux EXCEPT ![w.f] = w.v]
           /\ Goto(t, w.next)
    /\ UNCHANGED <<member, sdp_local, apiLog, memberLog, rxLog,
                   consumerLog, pjlog, crashed, life, loc>>

\* pj_lock_release; after the rollback's release the handler returns the
\* member's status
lock_release(t) ==
    /\ ~crashed /\ pc[t] \in DOMAIN ReleaseAt
    /\ mutex' = LockRelease(mutex, t)
    /\ IF ReleaseAt[pc[t]] = "return"
       THEN Return(t, loc[t].status)
       ELSE Goto(t, ReleaseAt[pc[t]]) /\ UNCHANGED <<apiLog, loc>>
    /\ UNCHANGED <<mux, member, sdp_local, memberLog, rxLog,
                   consumerLog, pjlog, crashed, mux_pool, p_tp>>

\* transport_attach2 line 188: the member's attach with the shadow parameters
member_attach2(t) ==
    /\ ~crashed /\ pc[t] = "attach2_188"
    /\ LET mp == MemberParam(loc[t].param)
           st == loc[t].status
       IN  /\ member' = MemberAttach(member, mp, st)
           /\ memberLog' = Append(memberLog,
                  [Call("attach2") EXCEPT !.rtp_cb = mp.rtp_cb,
                                          !.rtcp_cb = mp.rtcp_cb,
                                          !.user_data = mp.user_data,
                                          !.status = st,
                                          !.seen = Triple(mux)])
           /\ Goto(t, IF st # PJ_SUCCESS THEN "attach2_190" ELSE "attach2_198")
    /\ UNCHANGED <<mux, sdp_local, apiLog, rxLog, consumerLog, pjlog,
                   crashed, life, loc>>

\* transport_detach lines 209-211: the member's detach
member_detach(t) ==
    /\ ~crashed /\ pc[t] = "detach_209"
    /\ LET r == Detach(mux, member, loc[t].strm)
       IN  /\ member' = r.member
           /\ memberLog' = memberLog \o r.calls
    /\ Goto(t, "detach_214")
    /\ UNCHANGED <<mux, sdp_local, apiLog, rxLog, consumerLog, pjlog,
                   crashed, life, loc>>

\* the assignment to member_tp_attached, made without the mutex, and the
\* handler's return
set_attached(t) ==
    /\ ~crashed /\ pc[t] \in DOMAIN FlagAt
    /\ mux' = [mux EXCEPT !.member_tp_attached = FlagAt[pc[t]]]
    /\ Return(t, PJ_SUCCESS)
    /\ UNCHANGED <<member, sdp_local, memberLog, rxLog, consumerLog, pjlog,
                   crashed, life>>

\* transport_destroy line 273
lock_destroy(t) ==
    /\ ~crashed /\ pc[t] = "destroy_273"
    /\ mutex' = [mutex EXCEPT !.state = "destroyed"]
    /\ Goto(t, "destroy_274")
    /\ UNCHANGED <<mux, member, sdp_local, apiLog, memberLog, rxLog,
                   consumerLog, pjlog, crashed, mux_pool, p_tp, loc>>

\* transport_destroy line 274, and its return
pool_release(t) ==
    /\ ~crashed /\ pc[t] = "destroy_274"
    /\ mux_pool' = "released"
    /\ Return(t, PJ_SUCCESS)
    /\ UNCHANGED <<mux, member, sdp_local, memberLog, rxLog, consumerLog,
                   pjlog, crashed, mutex, p_tp>>

\* the member transport calls mux_rtp_cb or mux_rtcp_cb with a packet: the
\* routine picks the callback it is going to call (lines 287-289)
rx_enter(t, path, p) ==
    /\ ~crashed /\ pc[t] = "idle" /\ Begun < MaxConcOps
    /\ member.attached /\ member.user_data = MuxRef
    /\ IF path = "rtp" THEN member.rtp_cb = "mux_rtp_cb"
                       ELSE member.rtcp_cb = "mux_rtcp_cb"
    /\ Goto(t, IF path = "rtcp" THEN "mux_rtcp_cb_303"
               ELSE IF IsRtpType(PktType(p.pkt, p.size))
                    THEN "mux_rtp_cb_290" ELSE "mux_rtp_cb_292")
    /\ loc' = [loc EXCEPT ![t] =
           [NoLocals EXCEPT !.op = path, !.path = path, !.pkt = p.pkt,
                            !.size = p.size, !.entry = Triple(mux),
                            !.live = Usable,
                            !.todo = {"cb", "user_data"}]]
    /\ UNCHANGED <<mux, member, sdp_local, apiLog, memberLog, rxLog,
                   consumerLog, pjlog, crashed, life>>

\* the callback field the statement at a position calls through
SlotAt(l) == IF l = "mux_rtp_cb_290" THEN "rtp_cb" ELSE "rtcp_cb"

\* what a read of a field of the instance may yield: the value stored, or
\* anything once the pool was released
Load(f) == {mux[f]} \cup (IF mux_pool = "released" THEN {GARBAGE} ELSE {})

\* the routine reads the callback pointer or user_data, in either order and
\* without the mutex
rx_load(t, what) ==
    /\ ~crashed /\ pc[t] \in InvokeAt /\ what \in loc[t].todo
    /\ \E v \in Load(IF what = "cb" THEN SlotAt(pc[t]) ELSE "user_data") :
          loc' = [loc EXCEPT ![t][what] = v, ![t].todo = @ \ {what}]
    /\ UNCHANGED <<mux, member, sdp_local, apiLog, memberLog, rxLog,
                   consumerLog, pjlog, crashed, life, pc>>

\* the instance as the routine read it
Seen(t) ==
    [mux EXCEPT ![SlotAt(pc[t])] = loc[t].cb, !.user_data = loc[t].user_data]

\* the routine calls through the pointer it read
rx_invoke(t) ==
    /\ ~crashed /\ pc[t] \in InvokeAt /\ loc[t].todo = {}
    /\ LET l == loc[t]
           calls == IF l.path = "rtp"
                    THEN RtpDispatch(Seen(t), l.pkt, l.size)
                    ELSE RtcpDispatch(Seen(t), l.pkt, l.size)
       IN  /\ rxLog' = Append(rxLog,
                  [path |-> l.path, pkt |-> l.pkt, size |-> l.size,
                   attached |-> mux.member_tp_attached,
                   registered |-> l.entry])
           /\ IF \E i \in DOMAIN calls : calls[i].cb \in {NULL, GARBAGE}
              THEN /\ \E o \in NullCallOutcomes : crashed' = (o = "crash")
                   /\ UNCHANGED consumerLog
              ELSE /\ consumerLog' = consumerLog \o calls
                   /\ UNCHANGED crashed
    /\ pc' = [pc EXCEPT ![t] = "idle"]
    /\ loc' = [loc EXCEPT ![t] = NoLocals]
    /\ UNCHANGED <<mux, member, sdp_local, apiLog, memberLog, pjlog, life>>

NextConc ==
    \/ \E pp \in ParamPtrs, st \in ConcStatus : call_attach2("app", pp, st)
    \/ \E strm \in Streams : call_detach("app", strm)
    \/ call_destroy("app")
    \/ lock_acquire("app")
    \/ store("app")
    \/ lock_release("app")
    \/ member_attach2("app")
    \/ member_detach("app")
    \/ set_attached("app")
    \/ lock_destroy("app")
    \/ pool_release("app")
    \/ \E path \in {"rtp", "rtcp"}, p \in ConcPkts : rx_enter("rx", path, p)
    \/ \E what \in {"cb", "user_data"} : rx_load("rx", what)
    \/ rx_invoke("rx")

SpecConc == Init /\ [][NextConc]_vars

----------------------------------------------------------------------------
(* Properties *)

\* the step is a call of op on the decorator
ApiStep(op) ==
    /\ Len(apiLog') = Len(apiLog) + 1
    /\ Last(apiLog').op = op

\* the step is the member transport delivering a packet on path
RxStep(path) ==
    /\ Len(rxLog') = Len(rxLog) + 1
    /\ Last(rxLog').path = path

\* both consumer callbacks are registered in the instance
Registered(m) == m.rtp_cb # NULL /\ m.rtcp_cb # NULL

\* the low seven bits of the second byte lie in 64..95
InRtpRange(pkt, size) ==
    /\ size >= 2
    /\ (pkt[2] % 128) >= 64
    /\ (pkt[2] % 128) <= 95

\* C1: a packet handed to mux_rtp_cb while the consumer's callbacks are
\* registered is given to the consumer's RTP callback, and to it alone, when
\* its length is at least 2 and the low seven bits of its second byte are in
\* 64..95; in every other case it is given to the RTCP callback, and to it
\* alone.
C1_RtpPathRouting ==
    [][ (RxStep("rtp") /\ Registered(mux)) =>
          LET e == Last(rxLog')
          IN  /\ Len(consumerLog') = Len(consumerLog) + 1
              /\ Last(consumerLog').cb =
                    IF InRtpRange(e.pkt, e.size) THEN mux.rtp_cb
                                                 ELSE mux.rtcp_cb ]_vars

\* C1: a packet whose second byte is 0xC8 came on the RTP path and went to
\* the RTP callback.
C1_Witness ==
    /\ rxLog # <<>>
    /\ consumerLog # <<>>
    /\ Last(rxLog).path = "rtp"
    /\ Last(rxLog).pkt = <<128, 200>>
    /\ Last(consumerLog).pkt = <<128, 200>>
    /\ Last(consumerLog).cb = "A1"

\* the last attach on the decorator that succeeded
RECURSIVE LastAttached(_)
LastAttached(log) ==
    IF log = <<>>
    THEN NoTriple
    ELSE IF Last(log).op = "attach2" /\ Last(log).status = PJ_SUCCESS
         THEN [rtp_cb |-> Last(log).rtp_cb, rtcp_cb |-> Last(log).rtcp_cb,
               user_data |-> Last(log).user_data]
         ELSE LastAttached(SubSeq(log, 1, Len(log) - 1))

\* C2: every invocation of a consumer callback by a dispatch routine passes
\* the user data the consumer registered in its attach, never the instance
\* the member passed in, and the packet and length the member delivered.
C2_ConsumerArguments ==
    [][ (RxStep("rtp") \/ RxStep("rtcp")) =>
          \A i \in (Len(consumerLog) + 1)..Len(consumerLog') :
              LET c == consumerLog'[i]
                  e == Last(rxLog')
              IN  /\ c.user_data = LastAttached(apiLog).user_data
                  /\ c.user_data # MuxRef
                  /\ c.user_data # NULL
                  /\ c.pkt = e.pkt
                  /\ c.size = e.size ]_vars

\* C2: the second consumer's callback has run with the second consumer's
\* user data after the first consumer had been attached.
C2_Witness ==
    /\ consumerLog # <<>>
    /\ Last(consumerLog).user_data = "U2"
    /\ Last(consumerLog).size = 2
    /\ \E i \in DOMAIN apiLog :
          apiLog[i].op = "attach2" /\ apiLog[i].user_data = "U1"

\* C9: a packet handed to mux_rtcp_cb is given to the consumer's RTCP
\* callback and never to the RTP callback, whatever its length and bytes.
C9_RtcpPathRouting ==
    [][ (RxStep("rtcp") /\ mux.rtcp_cb # NULL) =>
          /\ Len(consumerLog') = Len(consumerLog) + 1
          /\ Last(consumerLog').cb = mux.rtcp_cb
          /\ Last(consumerLog').cb # mux.rtp_cb ]_vars

\* C9: a packet whose second byte is in the RTP range came on the RTCP path
\* and went to the RTCP callback.
C9_Witness ==
    /\ rxLog # <<>>
    /\ consumerLog # <<>>
    /\ Last(rxLog).path = "rtcp"
    /\ InRtpRange(Last(rxLog).pkt, Last(rxLog).size)
    /\ Last(consumerLog).cb = "B1"
    /\ Last(consumerLog).pkt = Last(rxLog).pkt

\* the packets of a log, in order
RECURSIVE Packets(_)
Packets(log) ==
    IF log = <<>>
    THEN <<>>
    ELSE Append(Packets(SubSeq(log, 1, Len(log) - 1)),
                <<Last(log).pkt, Last(log).size>>)

\* the packets delivered while the consumer was attached
RECURSIVE WhileAttached(_)
WhileAttached(log) ==
    IF log = <<>>
    THEN <<>>
    ELSE LET rest == WhileAttached(SubSeq(log, 1, Len(log) - 1))
         IN  IF Last(log).attached /\ Registered(Last(log).registered)
             THEN Append(rest, Last(log))
             ELSE rest

AttachFailedStep ==
    /\ ApiStep("attach2")
    /\ Len(memberLog') = Len(memberLog) + 1
    /\ Last(memberLog').op = "attach2"
    /\ Last(memberLog').status # PJ_SUCCESS

\* C3: when the member's attach fails, transport_attach2 returns with the
\* three consumer values cleared, the attached flag as it was before the
\* call, and the member's failure status.
C3_AttachFailure ==
    [][ AttachFailedStep =>
          /\ Triple(mux') = NoTriple
          /\ mux'.member_tp_attached = mux.member_tp_attached
          /\ Last(apiLog').status = Last(memberLog').status
          /\ Last(apiLog').status # PJ_SUCCESS ]_vars

\* C3: an attach has failed with PJ_EBUSY on an instance that an earlier
\* attach had attached.
C3_Witness ==
    /\ Len(apiLog) = 2
    /\ apiLog[1].op = "attach2" /\ apiLog[1].status = PJ_SUCCESS
    /\ apiLog[2].op = "attach2" /\ apiLog[2].status = PJ_EBUSY
    /\ Len(memberLog) = 2
    /\ Triple(mux) = NoTriple

\* the instance and the member after one successful attach of param on a
\* new instance
FirstAttach(param) == Attach2(MuxCreated, MemberFresh, Ptr(param), PJ_SUCCESS)

\* the last three calls on the decorator were a successful attach, a detach
\* and a successful attach of param
Reattached(param) ==
    /\ Len(apiLog) >= 3
    /\ LET n == Len(apiLog)
       IN  /\ apiLog[n - 2].op = "attach2"
           /\ apiLog[n - 2].status = PJ_SUCCESS
           /\ apiLog[n - 1].op = "detach"
           /\ apiLog[n].op = "attach2"
           /\ apiLog[n].status = PJ_SUCCESS
           /\ apiLog[n].user_data = param.user_data

\* C4: attach, detach, attach(P2), all succeeding, leave the instance and
\* the member as one attach(P2) on a new instance does: the triple is P2's,
\* attached is set, the member holds mux_rtp_cb and mux_rtcp_cb with the
\* instance as user data, and every packet is dispatched the same way.
C4_Reattach ==
    \A param \in AttachParams :
        Reattached(param) =>
            /\ mux = FirstAttach(param).mux
            /\ member = FirstAttach(param).member
            /\ Triple(mux) = param
            /\ mux.member_tp_attached
            /\ member = [rtp_cb |-> "mux_rtp_cb", rtcp_cb |-> "mux_rtcp_cb",
                         user_data |-> MuxRef, attached |-> TRUE]
            /\ \A p \in RxPkts :
                  /\ RtpDispatch(mux, p.pkt, p.size) =
                        RtpDispatch(FirstAttach(param).mux, p.pkt, p.size)
                  /\ RtcpDispatch(mux, p.pkt, p.size) =
                        RtcpDispatch(FirstAttach(param).mux, p.pkt, p.size)

\* C4: the first consumer attached and detached, the second attached and
\* received a packet.
C4_Witness ==
    /\ Len(apiLog) = 3
    /\ apiLog[1].user_data = "U1"
    /\ Reattached([rtp_cb |-> "A2", rtcp_cb |-> "B2", user_data |-> "U2"])
    /\ Len(consumerLog) = 1
    /\ consumerLog[1].cb = "A2"

\* C5: transport_detach, in any state, makes one detach call on the member
\* with the instance as the token and not the strm argument, the triple
\* still being as it was when the member is called; it returns with the
\* triple cleared and attached reset.  On a never-attached instance it
\* changes nothing of the instance.
C5_Detach ==
    [][ ApiStep("detach") =>
          /\ Len(memberLog') = Len(memberLog) + 1
          /\ SubSeq(memberLog', 1, Len(memberLog)) = memberLog
          /\ Last(memberLog').op = "detach"
          /\ Last(memberLog').user_data = MuxRef
          /\ Last(memberLog').user_data # Last(apiLog').user_data
          /\ Last(memberLog').seen = Triple(mux)
          /\ Triple(mux') = NoTriple
          /\ ~mux'.member_tp_attached
          /\ (mux = MuxCreated => mux' = mux) ]_vars

\* C5: a detach on an attached instance: the member was called while the
\* triple was still set, and the triple is cleared now.
C5_Witness ==
    /\ Len(apiLog) = 2
    /\ apiLog[1].op = "attach2" /\ apiLog[1].status = PJ_SUCCESS
    /\ apiLog[2].op = "detach"
    /\ Len(memberLog) = 2
    /\ memberLog[2].op = "detach"
    /\ memberLog[2].seen.rtp_cb = "A1"
    /\ Triple(mux) = NoTriple

SendOps == {"send_rtp", "send_rtcp", "send_rtcp2"}

\* the send calls of a log, in order
RECURSIVE Sends(_)
Sends(log) ==
    IF log = <<>>
    THEN <<>>
    ELSE LET rest == Sends(SubSeq(log, 1, Len(log) - 1))
         IN  IF Last(log).op \in SendOps THEN Append(rest, Last(log)) ELSE rest

\* C6: the member receives one send call for each send call made on the
\* decorator, in the same order, with the same buffer and the same length.
C6_SendsForwarded ==
    Packets(Sends(memberLog)) = Packets(Sends(apiLog))

\* C6: three sends of the three kinds, with different payloads, reached the
\* member.
C6_Witness ==
    /\ Len(Sends(apiLog)) = 3
    /\ Len(Sends(memberLog)) = 3
    /\ apiLog[1].op = "send_rtcp"
    /\ apiLog[2].op = "send_rtp"
    /\ apiLog[3].op = "send_rtcp2"
    /\ memberLog[1].pkt = "buf2" /\ memberLog[1].size = 172
    /\ memberLog[2].pkt = "buf1" /\ memberLog[2].size = 0
    /\ memberLog[3].pkt = "buf2"

\* the number of rtcp-mux attributes without a value in a media line
RECURSIVE CountRtcpMux(_)
CountRtcpMux(attrs) ==
    IF attrs = <<>>
    THEN 0
    ELSE CountRtcpMux(SubSeq(attrs, 1, Len(attrs) - 1))
         + (IF Last(attrs) = [name |-> "rtcp-mux", value |-> NULL]
            THEN 1 ELSE 0)

\* the step is transport_encode_sdp with valid arguments
EncodeStep ==
    /\ ApiStep("encode_sdp")
    /\ Last(apiLog').addr # NULL

\* C7: transport_encode_sdp with valid arguments calls the member's encode
\* first, then appends one rtcp-mux attribute without a value to the media
\* line at media_index, behind everything the member added, whether the
\* member succeeded or not, and returns the member's status; the other
\* media lines are untouched.
C7_EncodeSdp ==
    [][ EncodeStep =>
          LET i == Last(apiLog').media_index
              old == sdp_local[i]
              new == sdp_local'[i]
          IN  /\ Len(memberLog') = Len(memberLog) + 1
              /\ Last(memberLog').op = "encode_sdp"
              /\ Last(memberLog').media_index = i
              /\ Last(memberLog').seen_attrs = Len(old)
              /\ Len(new) > Len(old)
              /\ SubSeq(new, 1, Len(old)) = old
              /\ Last(new) = [name |-> "rtcp-mux", value |-> NULL]
              /\ CountRtcpMux(new) = CountRtcpMux(old) + 1
              /\ \A j \in MediaIdx \ {i} : sdp_local'[j] = sdp_local[j]
              /\ Last(apiLog').status = Last(memberLog').status ]_vars

\* C7: two encodes on one media line, the member adding an attribute and
\* failing in the second: the line holds two rtcp-mux attributes, the last
\* one behind the member's attribute.
C7_Witness ==
    /\ Len(apiLog) = 2
    /\ apiLog[1].op = "encode_sdp"
    /\ apiLog[2].op = "encode_sdp"
    /\ apiLog[2].status = PJ_EINVALIDOP
    /\ Len(sdp_local[1]) = 3
    /\ sdp_local[1][1].name = "rtcp-mux"
    /\ sdp_local[1][2].name = "candidate"
    /\ sdp_local[1][3].name = "rtcp-mux"

\* the operations that forward to the member, and the member operation each
\* one corresponds to
ForwardingOps ==
    SendOps \cup {"get_info", "media_create", "media_start", "media_stop",
                  "simulate_lost", "encode_sdp", "attach2"}

MemberOpOf(op) == IF op \in SendOps THEN "send_rtp" ELSE op

\* the call of the log was made with valid arguments
ValidCall(e) ==
    e.op \in {"attach2", "media_start", "encode_sdp"} => e.addr # NULL

\* C8: a forwarding operation called with valid arguments calls the member
\* operation it corresponds to once and returns the status the member
\* returned, whether success or failure.
C8_ForwardOnceVerbatim ==
    [][ ( /\ Len(apiLog') = Len(apiLog) + 1
          /\ Last(apiLog').op \in ForwardingOps
          /\ ValidCall(Last(apiLog')) ) =>
          /\ Len(memberLog') = Len(memberLog) + 1
          /\ SubSeq(memberLog', 1, Len(memberLog)) = memberLog
          /\ Last(memberLog').op = MemberOpOf(Last(apiLog').op)
          /\ Last(apiLog').status = Last(memberLog').status ]_vars

\* C8: the member's media_stop failed: the failure was logged and returned.
C8_Witness ==
    /\ apiLog # <<>>
    /\ Last(apiLog).op = "media_stop"
    /\ Last(apiLog).status = PJ_EINVALIDOP
    /\ Last(memberLog).op = "media_stop"
    /\ Last(memberLog).status = PJ_EINVALIDOP
    /\ Len(pjlog) = 1


----------------------------------------------------------------------------
(* Construction *)

\* the step is a call of pjmedia_transport_mux_create
CreateStep == ApiStep("create")

\* C11: create returns PJ_EINVAL and builds nothing when the endpoint or the
\* member transport is absent; when the mutex cannot be created it releases
\* the pool and returns that status, leaving no instance; on success the
\* instance holds the member transport and its type, the triple is cleared,
\* the attached flag is FALSE and nothing was called on the member.
C11_Create ==
    [][CreateStep =>
        LET c == Last(apiLog') IN
        /\ (c.endpt = NULL \/ c.tp = NullPtr) =>
               /\ c.status = PJ_EINVAL
               /\ mux' = NoInstance /\ p_tp' = NULL
               /\ mux_pool' = "none" /\ mutex' = NoMutex
        /\ (c.endpt # NULL /\ c.tp # NullPtr /\ c.p_tp # NULL
               /\ c.lock_status # PJ_SUCCESS) =>
               /\ c.status = c.lock_status
               /\ mux' = NoInstance /\ p_tp' = NULL
               /\ mux_pool' = "released" /\ mutex' = NoMutex
        /\ c.status = PJ_SUCCESS =>
               /\ p_tp' = MuxRef
               /\ mux'.member_tp = MemberTp
               /\ mux'.type = Deref(c.tp).type
               /\ Triple(mux') = NoTriple
               /\ mux'.member_tp_attached = FALSE
               /\ mux_pool' = "allocated" /\ mutex' = NewMutex
        /\ memberLog' = <<>> /\ member' = MemberFresh
    ]_vars

\* a create that failed on the mutex was followed by one that succeeded over
\* an ICE member transport
C11_Witness ==
    /\ Len(apiLog) = 2
    /\ apiLog[1].op = "create" /\ apiLog[1].status = PJ_ENOMEM
    /\ apiLog[2].op = "create" /\ apiLog[2].status = PJ_SUCCESS
    /\ mux.type = "PJMEDIA_TRANSPORT_TYPE_ICE"
    /\ mux_pool = "allocated"

----------------------------------------------------------------------------
(* The attach failure path on an instance that is already attached *)

\* C13: an attach whose member attach fails leaves the triple and the
\* attached flag as they were immediately before the call.
C13_AttachFailureRestores ==
    [][ AttachFailedStep =>
          /\ Triple(mux') = Triple(mux)
          /\ mux'.member_tp_attached = mux.member_tp_attached ]_vars

\* C19: whenever the member transport has the instance's interception
\* callbacks installed, the consumer's rtp and rtcp callbacks are set.
C19_MemberAttachedImpliesRegistered ==
    (member.attached /\ member.user_data = MuxRef) => Registered(mux)

----------------------------------------------------------------------------
(* RTCP sends share the member's RTP send *)

RtcpSendOps == {"send_rtcp", "send_rtcp2"}

\* what a step added to the member's log, and the status the step returned
MemberEffect ==
    [ calls |-> SubSeq(memberLog', Len(memberLog) + 1, Len(memberLog')),
      ret |-> Last(apiLog').status ]

\* C17: send_rtcp does what send_rtcp2 does with a null address and a zero
\* address length; every RTCP send calls the member's send_rtp exactly as
\* send_rtp does for the same buffer; the member's RTCP sends are never
\* called and no destination address reaches the member.
C17_RtcpSendsUseRtpSend ==
    [][ ( /\ Len(apiLog') = Len(apiLog) + 1
          /\ Last(apiLog').op \in RtcpSendOps ) =>
          LET e == Last(apiLog')
              st == Last(memberLog').status
          IN  /\ Len(memberLog') = Len(memberLog) + 1
              /\ e.op = "send_rtcp" =>
                    MemberEffect = SendRtcp2(mux, NULL, 0, e.pkt, e.size, st)
              /\ MemberEffect = SendRtp(mux, e.pkt, e.size, st)
              /\ Last(memberLog').op = "send_rtp"
              /\ Last(memberLog').addr = NULL
              /\ \A i \in 1..Len(memberLog') :
                    memberLog'[i].op \notin RtcpSendOps ]_vars

\* C17: an addressed RTCP send and an unaddressed one of the same buffer
\* reached the member as two identical send_rtp calls.
C17_Witness ==
    /\ Len(apiLog) = 2 /\ Len(memberLog) = 2
    /\ apiLog[1].op = "send_rtcp2" /\ apiLog[1].addr = "addr1"
    /\ apiLog[2].op = "send_rtcp" /\ apiLog[2].addr = NULL
    /\ apiLog[1].pkt = "buf2" /\ apiLog[2].pkt = "buf2"
    /\ memberLog[1] = memberLog[2]
    /\ memberLog[1].op = "send_rtp"

----------------------------------------------------------------------------
(* Frame: what only attach and detach may change *)

\* the operations that are neither attach nor detach
OtherOps ==
    SendOps \cup {"get_info", "media_create", "media_start", "media_stop",
                  "simulate_lost", "encode_sdp"}

\* the step is one of the other operations, or an inbound dispatch
OtherStep ==
    \/ Len(apiLog') = Len(apiLog) + 1 /\ Last(apiLog').op \in OtherOps
    \/ Len(rxLog') = Len(rxLog) + 1

\* C18: the sends, get_info, media_create, media_start, media_stop,
\* simulate_lost, encode_sdp and both inbound callbacks leave rtp_cb,
\* rtcp_cb, user_data and member_tp_attached unchanged, and no operation
\* changes member_tp.
C18_Frame ==
    [][ /\ OtherStep =>
              /\ Triple(mux') = Triple(mux)
              /\ mux'.member_tp_attached = mux.member_tp_attached
        /\ mux'.member_tp = mux.member_tp ]_vars

\* C18: on an attached instance media_stop failed and a packet was
\* dispatched; the registration and the member transport are as the attach
\* left them.
C18_Witness ==
    /\ Len(apiLog) = 2 /\ Len(rxLog) = 1 /\ Len(consumerLog) = 1
    /\ apiLog[1].op = "attach2" /\ apiLog[1].status = PJ_SUCCESS
    /\ apiLog[2].op = "media_stop" /\ apiLog[2].status # PJ_SUCCESS
    /\ mux.member_tp_attached
    /\ mux.member_tp = MemberTp
    /\ Triple(mux) = [rtp_cb |-> "A2", rtcp_cb |-> "B2", user_data |-> "U2"]

----------------------------------------------------------------------------
(* The two threads *)

\* the thread is about to write or read rtp_cb, rtcp_cb or user_data
AtTripleAccess(t) ==
    \/ pc[t] \in DOMAIN StoreAt(loc[t])
    \/ pc[t] \in InvokeAt /\ loc[t].todo # {}

\* the step is a dispatch routine reading a field of the instance
RxLoadStep == \E t \in Threads : pc[t] \in InvokeAt /\ loc'[t].todo # loc[t].todo

\* the step is a dispatch routine calling through the pointer it read
RxInvokeStep == \E t \in Threads : pc[t] \in InvokeAt /\ pc'[t] = "idle"

\* the callbacks a consumer registers
ConsumerCbs == { p.rtp_cb : p \in AttachParams } \cup
               { p.rtcp_cb : p \in AttachParams }

\* C12: in every state, also inside attach and detach, either the flag is
\* FALSE and the three values are cleared, or the flag is TRUE and the
\* callbacks are set.
C12_TripleAgreesWithFlag ==
    \/ ~mux.member_tp_attached /\ Triple(mux) = NoTriple
    \/ mux.member_tp_attached /\ Registered(mux) /\ mux.user_data # NULL

\* C14: a thread that writes or reads rtp_cb, rtcp_cb or user_data owns
\* the mutex while it does.
C14_AccessUnderGuard ==
    \A t \in Threads :
        AtTripleAccess(t) => mutex.state = "created" /\ mutex.owner = t

\* C15: a dispatch routine that was entered before destroy destroyed the
\* mutex reads no field of the instance and calls no consumer callback after
\* destroy destroyed the mutex or released the pool.
C15_NoDispatchAfterDestroy ==
    [][ (RxLoadStep \/ RxInvokeStep) =>
          \A t \in Threads :
              (pc[t] \in InvokeAt /\ loc[t].live) =>
                  mutex.state = "created" /\ mux_pool = "allocated" ]_vars

\* C16: a dispatch that began while the callbacks were registered never
\* calls through a slot that was cleared in the meantime.
C16_NeverInvokesClearedSlot ==
    [][ RxInvokeStep =>
          \A t \in Threads :
              (pc[t] \in InvokeAt /\ Registered(loc[t].entry)) =>
                  loc[t].cb # NULL ]_vars

\* C20: the callback a dispatch calls and the user_data it passes were
\* registered by the same attach.
C20_CallbackAndUserDataPaired ==
    [][ RxInvokeStep =>
          \A t \in Threads :
              (pc[t] \in InvokeAt /\ loc[t].cb \in ConsumerCbs) =>
                  \E p \in AttachParams :
                      /\ loc[t].cb \in {p.rtp_cb, p.rtcp_cb}
                      /\ loc[t].user_data = p.user_data ]_vars
====
